---- MODULE Spec2Model ----
(***************************************************************************)
(* Model of the data layer of the meetup events site (package data):       *)
(* Store, its Poll loop (poll + updateCache + Sleep), the fetcher events() *)
(* and the reader entry point AllEvents.                                   *)
(*                                                                         *)
(* A Go map is a reference: heap holds the contents of every map made by   *)
(* poll(), and all, events, eventCache and the readers' results are        *)
(* references into it (NilMap is the nil map of a fresh Store).            *)
(***************************************************************************)
EXTENDS Integers, Sequences, FiniteSets

(* ------------------------------ bounds ---------------------------------- *)

\* Number of iterations of the Poll loop that are explored.
MaxCycles == 2

\* Longest event list a fetch returns in PollSpec.
MaxLen == 2

\* Occurrence times (epoch milliseconds) the upstream API may report.
Times == {100, 300}

\* Concurrent callers of AllEvents.
Readers == {"r1", "r2"}

(* ------------------------------ data ------------------------------------ *)

meetupNames ==
    << "Boulder-Gophers",
       "Denver-Go-Language-User-Group",
       "Denver-Go-Programming-Language-Meetup" >>

Sources == {meetupNames[i] : i \in 1..Len(meetupNames)}

\* An Event as decoded from the API. The ID is the position of the record in
\* the response, which makes every record of one response distinct.
Event(id, t) == [ID |-> id, Name |-> "event", Time |-> t]

\* The decoded body of a response that lists the times ts, in that order.
Decoded(ts) == [i \in 1..Len(ts) |-> Event(i, ts[i])]

TimeLists(n) == UNION {[1..k -> Times] : k \in 0..n}

\* The three ways events(name) ends: the decoded list with a nil error, a
\* decode error with a nil list, or log.Fatal on a failed http.Get.
Ok(data) == [kind |-> "ok", data |-> data]
DecodeError == [kind |-> "decode", data |-> << >>]
TransportError == [kind |-> "transport", data |-> << >>]
NotFetched == [kind |-> "none", data |-> << >>]

eventsResults(n) ==
    {Ok(Decoded(ts)) : ts \in TimeLists(n)} \cup {DecodeError, TransportError}

\* The responses the model of the running loop draws from: an unsorted list
\* and both failures.
LoopResults ==
    {Ok(Decoded(<<300, 100>>)), DecodeError, TransportError}

NilMap == 0
MapRefs == 1..MaxCycles
EmptyMap == [k \in {} |-> << >>]

(* ------------------------------ sorting --------------------------------- *)

IsSorted(v) == \A i \in 1..(Len(v) - 1) : ~(v[i + 1].Time < v[i].Time)

Perms(n) == {p \in [1..n -> 1..n] : \A i, j \in 1..n : p[i] = p[j] => i = j}

\* sort.Slice with less = v[i].Time < v[j].Time: the result is a permutation
\* of v ordered by less; sort.Slice does not promise stability, so every
\* such permutation is a possible result.
SortSlice(v) ==
    {w \in {[i \in 1..Len(v) |-> v[p[i]]] : p \in Perms(Len(v))} : IsSorted(w)}

\* The loop of poll() over the map, from the i-th source on: every value is
\* sorted in place. The set of maps the loop can leave behind.
RECURSIVE SortFrom(_, _)
SortFrom(i, m) ==
    IF i > Len(meetupNames) THEN {m}
    ELSE IF meetupNames[i] \in DOMAIN m
         THEN UNION {SortFrom(i + 1, [m EXCEPT ![meetupNames[i]] = w]) :
                        w \in SortSlice(m[meetupNames[i]])}
         ELSE SortFrom(i + 1, m)

SortAll(m) == SortFrom(1, m)

RECURSIVE InsertStable(_, _)
InsertStable(w, e) ==
    IF w = << >> THEN <<e>>
    ELSE IF e.Time < w[Len(w)].Time
         THEN Append(InsertStable(SubSeq(w, 1, Len(w) - 1), e), w[Len(w)])
         ELSE Append(w, e)

\* The stable sort by Time (insertion sort, left to right).
RECURSIVE StableSort(_)
StableSort(v) ==
    IF v = << >> THEN << >>
    ELSE InsertStable(StableSort(SubSeq(v, 1, Len(v) - 1)), v[Len(v)])

(* ------------------------------ rendering ------------------------------- *)

\* The 3 of v[0:3] in UpcomingEvents.
MaxShown == 3

\* Longest event list of a snapshot handed to UpcomingEvents in RenderSpec.
MaxRender == 4

\* The zero value of Event.
ZeroEvent == [ID |-> 0, Name |-> "", Time |-> 0]

\* cap(data) after decoder.Decode(&data) has decoded n events. The slice
\* grows one element at a time: as append does (1, 2, 4, 8, ...) or, in
\* older releases of encoding/json, by half with a minimum of 4 (4, 6, 9, ...).
\* An empty array decodes to a slice of capacity 0.
RECURSIVE GrowTo(_, _, _)
GrowTo(c, n, legacy) ==
    IF c >= n THEN c
    ELSE GrowTo(IF legacy THEN (IF c + c \div 2 < 4 THEN 4 ELSE c + c \div 2)
                ELSE (IF c = 0 THEN 1 ELSE 2 * c), n, legacy)

DecoderCaps(n) == {GrowTo(0, n, FALSE), GrowTo(0, n, TRUE)}

\* The ways the slices of the map m may have been allocated.
CapsOf(m) ==
    {c \in [DOMAIN m -> UNION {DecoderCaps(Len(m[k])) : k \in DOMAIN m}] :
        \A k \in DOMAIN m : c[k] \in DecoderCaps(Len(m[k]))}

\* v[0:3] of a slice within its capacity: the first three elements of the
\* backing array, which holds zero values beyond len(v).
SliceThree(v) == [i \in 1..MaxShown |-> IF i <= Len(v) THEN v[i] ELSE ZeroEvent]

\* How an UpcomingEvents call ends: it returns the map threeEvents, or the
\* slice expression of line 55 panics (slice bounds out of range).
NotCalled == [state |-> "none", value |-> EmptyMap]
Returned(m) == [state |-> "returned", value |-> m]
Panicked == [state |-> "panic", value |-> EmptyMap]

\* UpcomingEvents on p.events = m whose slices have the capacities c:
\* v[0:3] panics when 3 > cap(v).
UpcomingEventsResult(m, c) ==
    IF \E k \in DOMAIN m : MaxShown > c[k]
    THEN Panicked
    ELSE Returned([k \in DOMAIN m |-> SliceThree(m[k])])

\* The sorted lists of at most n events.
SortedLists(n) == {Decoded(ts) : ts \in {t \in TimeLists(n) : IsSorted(Decoded(t))}}

\* The snapshots poll() can return whose lists have at most n events.
Snapshots(n) ==
    UNION {[D -> SortedLists(n)] : D \in SUBSET Sources}

(* ------------------------------ poll() as a function -------------------- *)

\* poll() from the i-th source on, with m built so far, when events(k) ends
\* as o[k]: the process exits in log.Fatal, or poll() returns one of maps.
RECURSIVE PollFrom(_, _, _)
PollFrom(i, m, o) ==
    IF i > Len(meetupNames) THEN [exited |-> FALSE, maps |-> SortAll(m)]
    ELSE IF o[meetupNames[i]].kind = "transport" THEN [exited |-> TRUE, maps |-> {}]
    ELSE IF o[meetupNames[i]].kind = "ok"
         THEN PollFrom(i + 1, [x \in DOMAIN m \cup {meetupNames[i]} |->
                                  IF x = meetupNames[i] THEN o[meetupNames[i]].data ELSE m[x]], o)
         ELSE PollFrom(i + 1, m, o)

PollResult(o) == PollFrom(1, [k \in {} |-> << >>], o)

(* ------------------------------ state ----------------------------------- *)

VARIABLES
    pc,          \* where the Poll goroutine is
    idx,         \* index into meetupNames of the range loop in poll()
    all,         \* poll(): the map under construction (a reference)
    events,      \* Poll(): the result of s.poll() (a reference)
    heap,        \* contents of the maps made so far (references 1..cycle)
    eventCache,  \* Store.eventCache (a reference)
    mu,          \* Store.mu: "free" or its holder
    cycle,       \* iterations of the Poll loop started so far
    got,         \* what events(meetup) did in the current poll(), per source
    hist,        \* the arguments of the updateCache calls so far, with their contents
    rpc,         \* where each AllEvents caller is
    ret,         \* the map each caller got from its last AllEvents call
    prev,        \* the map each caller got from the call before that one
    callAt,      \* number of updateCache calls done when the call started
    fetched,     \* calls of events(meetup) in the current poll(), per source
    last,        \* how the most recent events(meetup) call ended, per source
    threeEvents  \* what the last UpcomingEvents call returned

vars ==
    <<pc, idx, all, events, heap, eventCache, mu, cycle, got, hist, rpc, ret, prev, callAt,
      fetched, last, threeEvents>>

pollVars == <<pc, idx, all, events, heap, cycle, got>>

Deref(ref) == IF ref = NilMap THEN EmptyMap ELSE heap[ref]

Put(m, k, v) == [x \in DOMAIN m \cup {k} |-> IF x = k THEN v ELSE m[x]]

(* ------------------------------ Store ----------------------------------- *)

\* NewStore: only pollingInterval is set; eventCache is the nil map and mu
\* the zero Mutex. Poll has been started and no AllEvents call made yet.
NewStore ==
    /\ eventCache = NilMap
    /\ mu = "free"
    /\ heap = [r \in MapRefs |-> EmptyMap]

Init ==
    /\ NewStore
    /\ pc = "poll"
    /\ idx = 1
    /\ all = NilMap
    /\ events = NilMap
    /\ cycle = 0
    /\ got = [m \in Sources |-> NotFetched]
    /\ hist = << >>
    /\ rpc = [r \in Readers |-> "idle"]
    /\ ret = [r \in Readers |-> NilMap]
    /\ prev = [r \in Readers |-> NilMap]
    /\ callAt = [r \in Readers |-> 0]
    /\ fetched = [m \in Sources |-> 0]
    /\ last = [m \in Sources |-> "none"]
    /\ threeEvents = NotCalled

(* ------------------------------ Poll loop ------------------------------- *)

\* pollMake building the map in the Store's field: s.eventCache is set to
\* the new map as soon as it is made.
pollMakePublished ==
    /\ pc = "poll"
    /\ pc' = "fetch"
    /\ idx' = 1
    /\ cycle' = cycle + 1
    /\ all' = cycle + 1
    /\ eventCache' = cycle + 1
    /\ heap' = [heap EXCEPT ![cycle + 1] = EmptyMap]
    /\ got' = [m \in Sources |-> NotFetched]
    /\ fetched' = [m \in Sources |-> 0]
    /\ UNCHANGED <<events, mu, hist, rpc, ret, prev, callAt, last, threeEvents>>

\* pollMake clearing and refilling the map the cache holds instead of
\* making a new one (all := s.eventCache once it is not nil).
pollMakeReuse ==
    /\ pc = "poll"
    /\ pc' = "fetch"
    /\ idx' = 1
    /\ cycle' = cycle + 1
    /\ all' = IF eventCache = NilMap THEN cycle + 1 ELSE eventCache
    /\ heap' = [heap EXCEPT ![all'] = EmptyMap]
    /\ got' = [m \in Sources |-> NotFetched]
    /\ fetched' = [m \in Sources |-> 0]
    /\ UNCHANGED <<events, eventCache, mu, hist, rpc, ret, prev, callAt, last, threeEvents>>

\* poll(), line 55: all := make(map[string][]Event).
pollMake ==
    /\ pc = "poll"
    /\ pc' = "fetch"
    /\ idx' = 1
    /\ cycle' = cycle + 1
    /\ all' = cycle + 1
    /\ heap' = [heap EXCEPT ![cycle + 1] = EmptyMap]
    /\ got' = [m \in Sources |-> NotFetched]
    /\ fetched' = [m \in Sources |-> 0]
    /\ UNCHANGED <<events, eventCache, mu, hist, rpc, ret, prev, callAt, last, threeEvents>>

\* pollFetch without the continue of line 60: the nil list of a failed
\* events() call is stored under the source.
pollFetchNoSkip(o) ==
    /\ pc = "fetch"
    /\ idx <= Len(meetupNames)
    /\ got' = [got EXCEPT ![meetupNames[idx]] = o]
    /\ fetched' = [fetched EXCEPT ![meetupNames[idx]] = @ + 1]
    /\ last' = [last EXCEPT ![meetupNames[idx]] = o.kind]
    /\ IF o.kind = "transport"
       THEN /\ pc' = "exited"
            /\ UNCHANGED <<idx, heap>>
       ELSE /\ idx' = idx + 1
            /\ pc' = IF idx = Len(meetupNames) THEN "sort" ELSE "fetch"
            /\ heap' = [heap EXCEPT ![all] = Put(heap[all], meetupNames[idx], o.data)]
    /\ UNCHANGED <<all, events, eventCache, mu, cycle, hist, rpc, ret, prev, callAt, threeEvents>>

\* pollFetch leaving the range loop at the first failed events() call
\* (break for the continue of line 60).
pollFetchBreak(o) ==
    /\ pc = "fetch"
    /\ idx <= Len(meetupNames)
    /\ got' = [got EXCEPT ![meetupNames[idx]] = o]
    /\ fetched' = [fetched EXCEPT ![meetupNames[idx]] = @ + 1]
    /\ last' = [last EXCEPT ![meetupNames[idx]] = o.kind]
    /\ IF o.kind = "transport"
       THEN /\ pc' = "exited"
            /\ UNCHANGED <<idx, heap>>
       ELSE /\ idx' = idx + 1
            /\ pc' = IF idx = Len(meetupNames) \/ o.kind /= "ok" THEN "sort" ELSE "fetch"
            /\ heap' = IF o.kind = "ok"
                       THEN [heap EXCEPT ![all] = Put(heap[all], meetupNames[idx], o.data)]
                       ELSE heap
    /\ UNCHANGED <<all, events, eventCache, mu, cycle, hist, rpc, ret, prev, callAt, threeEvents>>

\* pollFetch calling events(meetup) a second time when the first call
\* returned an error.
pollFetchRetry(o) ==
    /\ pc = "fetch"
    /\ idx <= Len(meetupNames)
    /\ got' = [got EXCEPT ![meetupNames[idx]] = o]
    /\ fetched' = [fetched EXCEPT ![meetupNames[idx]] = @ + 1]
    /\ last' = [last EXCEPT ![meetupNames[idx]] = o.kind]
    /\ IF o.kind = "transport"
       THEN /\ pc' = "exited"
            /\ UNCHANGED <<idx, heap>>
       ELSE IF o.kind /= "ok" /\ fetched[meetupNames[idx]] = 0
       THEN UNCHANGED <<pc, idx, heap>>
       ELSE /\ idx' = idx + 1
            /\ pc' = IF idx = Len(meetupNames) THEN "sort" ELSE "fetch"
            /\ heap' = IF o.kind = "ok"
                       THEN [heap EXCEPT ![all] = Put(heap[all], meetupNames[idx], o.data)]
                       ELSE heap
    /\ UNCHANGED <<all, events, eventCache, mu, cycle, hist, rpc, ret, prev, callAt, threeEvents>>

\* fmt.Sprintf(apiTemplate, name): the address events() requests.
apiTemplate(name) == "https://api.meetup.com/" \o name \o "/events?status=upcoming"

\* pollFetch storing the list under the address it was fetched from
\* (all[url] = events) instead of the source name.
pollFetchUrlKey(o) ==
    /\ pc = "fetch"
    /\ idx <= Len(meetupNames)
    /\ got' = [got EXCEPT ![meetupNames[idx]] = o]
    /\ fetched' = [fetched EXCEPT ![meetupNames[idx]] = @ + 1]
    /\ last' = [last EXCEPT ![meetupNames[idx]] = o.kind]
    /\ IF o.kind = "transport"
       THEN /\ pc' = "exited"
            /\ UNCHANGED <<idx, heap>>
       ELSE /\ idx' = idx + 1
            /\ pc' = IF idx = Len(meetupNames) THEN "sort" ELSE "fetch"
            /\ heap' = IF o.kind = "ok"
                       THEN [heap EXCEPT ![all] = Put(heap[all], apiTemplate(meetupNames[idx]), o.data)]
                       ELSE heap
    /\ UNCHANGED <<all, events, eventCache, mu, cycle, hist, rpc, ret, prev, callAt, threeEvents>>

\* poll(), lines 56-63: one iteration of the range loop, events(meetup)
\* ending as o. A failed http.Get ends the process in log.Fatal.
pollFetch(o) ==
    /\ pc = "fetch"
    /\ idx <= Len(meetupNames)
    /\ got' = [got EXCEPT ![meetupNames[idx]] = o]
    /\ fetched' = [fetched EXCEPT ![meetupNames[idx]] = @ + 1]
    /\ last' = [last EXCEPT ![meetupNames[idx]] = o.kind]
    /\ IF o.kind = "transport"
       THEN /\ pc' = "exited"
            /\ UNCHANGED <<idx, heap>>
       ELSE /\ idx' = idx + 1
            /\ pc' = IF idx = Len(meetupNames) THEN "sort" ELSE "fetch"
            /\ heap' = IF o.kind = "ok"
                       THEN [heap EXCEPT ![all] = Put(heap[all], meetupNames[idx], o.data)]
                       ELSE heap
    /\ UNCHANGED <<all, events, eventCache, mu, cycle, hist, rpc, ret, prev, callAt, threeEvents>>

\* pollSort without the loop of lines 65-69: the map is returned as fetched.
pollSortNone ==
    /\ pc = "sort"
    /\ events' = all
    /\ pc' = "update"
    /\ UNCHANGED <<idx, all, heap, eventCache, mu, cycle, got, hist, rpc, ret, prev, callAt, fetched, last, threeEvents>>

\* poll(), lines 65-71: every list of the map is sorted, and the map is
\* returned to Poll (events := s.poll()).
pollSort ==
    /\ pc = "sort"
    /\ \E s \in SortAll(heap[all]) : heap' = [heap EXCEPT ![all] = s]
    /\ events' = all
    /\ pc' = "update"
    /\ UNCHANGED <<idx, all, eventCache, mu, cycle, got, hist, rpc, ret, prev, callAt, fetched, last, threeEvents>>

\* Poll calling updateCache only for a map that has a source
\* (if len(events) > 0): an empty result leaves the cache as it was.
updateCacheLockSkipEmpty ==
    /\ pc = "update"
    /\ IF Deref(events) = EmptyMap
       THEN pc' = "sleep" /\ mu' = mu
       ELSE mu = "free" /\ mu' = "Poll" /\ pc' = "updating"
    /\ UNCHANGED <<idx, all, events, heap, eventCache, cycle, got, hist, rpc, ret, prev, callAt, fetched, last, threeEvents>>

\* updateCache, line 49: s.mu.Lock().
updateCacheLock ==
    /\ pc = "update"
    /\ mu = "free"
    /\ mu' = "Poll"
    /\ pc' = "updating"
    /\ UNCHANGED <<idx, all, events, heap, eventCache, cycle, got, hist, rpc, ret, prev, callAt, fetched, last, threeEvents>>

\* updateCache copying the new entries into the map the cache already
\* holds (for k, v := range events { s.eventCache[k] = v }).
updateCacheMerge ==
    /\ pc = "updating"
    /\ IF eventCache = NilMap
       THEN eventCache' = events /\ heap' = heap
       ELSE /\ eventCache' = eventCache
            /\ heap' = [heap EXCEPT ![eventCache] =
                    [k \in DOMAIN heap[eventCache] \cup DOMAIN heap[events] |->
                        IF k \in DOMAIN heap[events] THEN heap[events][k]
                        ELSE heap[eventCache][k]]]
    /\ hist' = Append(hist, [ref |-> events, data |-> Deref(events)])
    /\ mu' = "free"
    /\ pc' = "sleep"
    /\ UNCHANGED <<idx, all, events, cycle, got, rpc, ret, prev, callAt, fetched, last, threeEvents>>

\* updateCache filling the cache only while it is nil
\* (if s.eventCache == nil { s.eventCache = events }).
updateCacheOnce ==
    /\ pc = "updating"
    /\ eventCache' = IF eventCache = NilMap THEN events ELSE eventCache
    /\ hist' = Append(hist, [ref |-> events, data |-> Deref(events)])
    /\ mu' = "free"
    /\ pc' = "sleep"
    /\ UNCHANGED <<idx, all, events, heap, cycle, got, rpc, ret, prev, callAt, fetched, last, threeEvents>>

\* updateCache clearing the cache when the new map has no source
\* (if len(events) == 0 { s.eventCache = nil }).
updateCacheClearEmpty ==
    /\ pc = "updating"
    /\ eventCache' = IF Deref(events) = EmptyMap THEN NilMap ELSE events
    /\ hist' = Append(hist, [ref |-> events, data |-> Deref(events)])
    /\ mu' = "free"
    /\ pc' = "sleep"
    /\ UNCHANGED <<idx, all, events, heap, cycle, got, rpc, ret, prev, callAt, fetched, last, threeEvents>>

\* updateCache without the deferred Unlock of line 50.
updateCacheNoUnlock ==
    /\ pc = "updating"
    /\ eventCache' = events
    /\ hist' = Append(hist, [ref |-> events, data |-> Deref(events)])
    /\ pc' = "sleep"
    /\ UNCHANGED <<idx, all, events, heap, mu, cycle, got, rpc, ret, prev, callAt, fetched, last, threeEvents>>

\* updateCache, lines 50-52: s.eventCache = events, then the deferred
\* Unlock; Poll goes on to time.Sleep.
updateCache ==
    /\ pc = "updating"
    /\ eventCache' = events
    /\ hist' = Append(hist, [ref |-> events, data |-> Deref(events)])
    /\ mu' = "free"
    /\ pc' = "sleep"
    /\ UNCHANGED <<idx, all, events, heap, cycle, got, rpc, ret, prev, callAt, fetched, last, threeEvents>>

\* Poll, line 44: time.Sleep returns and the loop starts over.
PollSleep ==
    /\ pc = "sleep"
    /\ cycle < MaxCycles
    /\ pc' = "poll"
    /\ UNCHANGED <<idx, all, events, heap, eventCache, mu, cycle, got, hist, rpc, ret, prev, callAt, fetched, last, threeEvents>>

(* ------------------------------ readers --------------------------------- *)

\* A caller enters AllEvents.
AllEventsCall(r) ==
    /\ pc /= "exited"
    /\ rpc[r] \in {"idle", "returned"}
    /\ rpc' = [rpc EXCEPT ![r] = "lock"]
    /\ callAt' = [callAt EXCEPT ![r] = Len(hist)]
    /\ UNCHANGED <<pollVars, eventCache, mu, hist, ret, prev, fetched, last, threeEvents>>

\* AllEvents, line 76: s.mu.Lock().
AllEventsLock(r) ==
    /\ pc /= "exited"
    /\ rpc[r] = "lock"
    /\ mu = "free"
    /\ mu' = r
    /\ rpc' = [rpc EXCEPT ![r] = "locked"]
    /\ UNCHANGED <<pollVars, eventCache, hist, ret, prev, callAt, fetched, last, threeEvents>>

\* AllEvents, lines 77-78: return s.eventCache, then the deferred Unlock.
AllEvents(r) ==
    /\ pc /= "exited"
    /\ rpc[r] = "locked"
    /\ ret' = [ret EXCEPT ![r] = eventCache]
    /\ prev' = [prev EXCEPT ![r] = ret[r]]
    /\ mu' = "free"
    /\ rpc' = [rpc EXCEPT ![r] = "returned"]
    /\ UNCHANGED <<pollVars, eventCache, hist, callAt, fetched, last, threeEvents>>

(* ------------------------------ rendering a page ------------------------ *)

\* ui.Render(events) on the map a caller got from AllEvents: the template
\* calls UpcomingEvents and formats what it returns; nothing is stored.
Render(r) ==
    /\ pc /= "exited"
    /\ rpc[r] = "returned"
    /\ UNCHANGED vars

\* indexPage.UpcomingEvents on the map a caller got from AllEvents.
UpcomingEvents(r) ==
    /\ rpc[r] = "returned"
    /\ \E c \in CapsOf(Deref(ret[r])) :
          threeEvents' = UpcomingEventsResult(Deref(ret[r]), c)
    /\ UNCHANGED <<pc, idx, all, events, heap, eventCache, mu, cycle, got, hist, rpc, ret,
                   prev, callAt, fetched, last>>

\* The first cycle has installed the snapshot m, the loop sleeps and every
\* caller holds m from an AllEvents call.
RenderInit(m) ==
    /\ eventCache = 1
    /\ mu = "free"
    /\ heap = [r \in MapRefs |-> IF r = 1 THEN m ELSE EmptyMap]
    /\ pc = "sleep"
    /\ idx = Len(meetupNames) + 1
    /\ all = 1
    /\ events = 1
    /\ cycle = 1
    /\ got = [k \in Sources |-> IF k \in DOMAIN m THEN Ok(m[k]) ELSE DecodeError]
    /\ hist = <<[ref |-> 1, data |-> m]>>
    /\ rpc = [r \in Readers |-> "returned"]
    /\ ret = [r \in Readers |-> 1]
    /\ prev = [r \in Readers |-> NilMap]
    /\ callAt = [r \in Readers |-> 1]
    /\ fetched = [k \in Sources |-> 1]
    /\ last = [k \in Sources |-> IF k \in DOMAIN m THEN "ok" ELSE "decode"]
    /\ threeEvents = NotCalled

(* ------------------------------ specifications -------------------------- *)

PollNext ==
    \/ pollMake
    \/ \E o \in LoopResults : pollFetch(o)
    \/ pollSort
    \/ updateCacheLock
    \/ updateCache
    \/ PollSleep

Next ==
    \/ PollNext
    \/ \E r \in Readers : AllEventsCall(r)
    \/ \E r \in Readers : AllEventsLock(r)
    \/ \E r \in Readers : AllEvents(r)
    \/ \E r \in Readers : Render(r)

Spec == Init /\ [][Next]_vars

\* One call of poll(), over every response of at most MaxLen events.
PollOnce ==
    \/ pollMake
    \/ \E o \in eventsResults(MaxLen) : pollFetch(o)
    \/ pollSort

PollSpec == Init /\ [][PollOnce]_vars

\* UpcomingEvents on every snapshot whose lists have at most MaxRender events.
RenderNext == \E r \in Readers : UpcomingEvents(r)

RenderStart == \E m \in Snapshots(MaxRender) : RenderInit(m)

RenderSpec == RenderStart /\ [][RenderNext]_vars

\* The Poll goroutine keeps running, sync.Mutex hands the lock to a waiter
\* (starvation mode), and a goroutine inside AllEvents runs to its return.
FairSpec ==
    /\ Spec
    /\ WF_vars(PollNext)
    /\ SF_vars(updateCacheLock)
    /\ \A r \in Readers : SF_vars(AllEventsLock(r)) /\ WF_vars(AllEvents(r))

(* ------------------------------ poll() ---------------------------------- *)

Succeeded == {m \in Sources : got[m].kind = "ok"}

\* C2: the map poll() returns has as its keys exactly the sources whose
\* events() call returned a nil error; a source whose call returned an error
\* is not a key, not even with an empty list.
PollKeysAreSuccesses ==
    pc = "update" => DOMAIN heap[events] = Succeeded

PollKeysWitness ==
    /\ pc = "update"
    /\ got[meetupNames[1]] = Ok(Decoded(<<300, 100>>))
    /\ got[meetupNames[2]] = DecodeError
    /\ got[meetupNames[3]] = Ok(Decoded(<< >>))
    /\ DOMAIN heap[events] = {meetupNames[1], meetupNames[3]}
    /\ heap[events][meetupNames[1]] = <<Event(2, 100), Event(1, 300)>>

\* C4 (as claimed): the list poll() stores for a source is the stable sort by
\* Time of the list events() returned for it.
StoredIsStableSort ==
    pc = "update" =>
        \A m \in DOMAIN heap[events] : heap[events][m] = StableSort(got[m].data)

(* ------------------------------ the cache ------------------------------- *)

\* The k-th snapshot installed; the 0-th is the nil map of NewStore.
Hist(k) == IF k = 0 THEN [ref |-> NilMap, data |-> EmptyMap] ELSE hist[k]

\* The position of a map in the order of installation (0: never installed).
InstallIndex(ref) ==
    IF \E k \in 1..Len(hist) : hist[k].ref = ref
    THEN CHOOSE k \in 1..Len(hist) :
            hist[k].ref = ref /\ \A j \in (k + 1)..Len(hist) : hist[j].ref /= ref
    ELSE 0

AllSorted(m) == \A k \in DOMAIN m : IsSorted(m[k])

\* C1: an AllEvents call returns one of the snapshots that were current
\* during the call (with one updateCache in flight: the one before it or the
\* new one), with exactly the sources and lists it was installed with.
ReadIsPriorOrNew ==
    \A r \in Readers :
        rpc[r] = "returned" =>
            \E k \in callAt[r]..Len(hist) :
                ret[r] = Hist(k).ref /\ Deref(ret[r]) = Hist(k).data

ReadIsPriorOrNewWitness ==
    /\ \A r \in Readers : rpc[r] = "returned" /\ callAt[r] = 1
    /\ Len(hist) = 2
    /\ ret["r1"] = hist[1].ref
    /\ ret["r2"] = hist[2].ref
    /\ DOMAIN hist[1].data = {meetupNames[1], meetupNames[2]}
    /\ DOMAIN hist[2].data = {meetupNames[2], meetupNames[3]}

\* C3: every list of the cached snapshot, and of every snapshot a caller of
\* AllEvents holds, is sorted non-decreasing by Time.
CacheSorted ==
    /\ AllSorted(Deref(eventCache))
    /\ \A r \in Readers : AllSorted(Deref(ret[r]))

CacheSortedWitness ==
    \E r \in Readers :
        /\ rpc[r] = "returned"
        /\ ret[r] = eventCache
        /\ eventCache /= NilMap
        /\ got[meetupNames[1]] = Ok(Decoded(<<300, 100>>))
        /\ Deref(ret[r])[meetupNames[1]] = <<Event(2, 100), Event(1, 300)>>

\* C5 (as claimed): a failed http.Get for one source does not end the
\* process: the Poll loop goes on to the other sources and to updateCache.
TransportErrorContained ==
    (\E m \in Sources : got[m].kind = "transport") => pc /= "exited"

\* C6 (as claimed): whatever the fetches do, a poll in progress is followed
\* by updateCache and the sleep of the loop.
PollingLeadsToIdle ==
    (pc \in {"poll", "fetch", "sort", "update", "updating"}) ~> (pc = "sleep")

\* C7: the maps installed are distinct, the cache holds the last of them,
\* and of two successive AllEvents calls of one caller the later never
\* returns a map installed before the map the earlier returned.
MonotonicVisibility ==
    /\ \A i, j \in 1..Len(hist) : hist[i].ref = hist[j].ref => i = j
    /\ pc /= "updating" => eventCache = Hist(Len(hist)).ref
    /\ \A r \in Readers :
        rpc[r] = "returned" => InstallIndex(prev[r]) <= InstallIndex(ret[r])

MonotonicVisibilityWitness ==
    \E r \in Readers :
        /\ rpc[r] = "returned"
        /\ InstallIndex(prev[r]) = 1
        /\ InstallIndex(ret[r]) = 2

\* C8: an AllEvents call that returns before the first updateCache has
\* stored its map returns the nil map, which has no source.
ReadBeforeFirstUpdate ==
    \A r \in Readers :
        (rpc[r] = "returned" /\ hist = << >>) =>
            ret[r] = NilMap /\ DOMAIN Deref(ret[r]) = {}

ReadBeforeFirstUpdateWitness ==
    /\ hist = << >>
    /\ pc = "update"
    /\ DOMAIN Deref(events) /= {}
    /\ \E r \in Readers : rpc[r] = "returned" /\ ret[r] = NilMap

\* C9: an AllEvents call made after updateCache(S), with no other
\* updateCache since, returns S: the same map with the same contents.
RoundTrip ==
    \A r \in Readers :
        (rpc[r] = "returned" /\ callAt[r] = Len(hist) /\ Len(hist) >= 1) =>
            /\ ret[r] = hist[Len(hist)].ref
            /\ Deref(ret[r]) = hist[Len(hist)].data

RoundTripWitness ==
    \E r \in Readers :
        /\ rpc[r] = "returned"
        /\ callAt[r] = 2
        /\ Len(hist) = 2
        /\ ret[r] = hist[2].ref
        /\ DOMAIN Deref(ret[r]) /= {}
        /\ Deref(ret[r]) /= hist[1].data

\* What poll() made of the fetches of the current cycle.
IsAggregateOfCycle(ref) ==
    /\ ref = cycle
    /\ DOMAIN Deref(ref) = Succeeded
    /\ \A m \in Succeeded : Deref(ref)[m] \in SortSlice(got[m].data)

\* C10: while the loop sleeps after its k-th updateCache (k >= 1), the cache
\* holds the map poll() returned in cycle k, and every AllEvents call made
\* since that updateCache returns it: not the nil map, not an earlier map.
IdleServesLastCycle ==
    (pc = "sleep" /\ cycle >= 1) =>
        /\ Len(hist) = cycle
        /\ eventCache = events
        /\ IsAggregateOfCycle(eventCache)
        /\ \A r \in Readers :
            (rpc[r] = "returned" /\ callAt[r] = cycle) =>
                ret[r] = events /\ ret[r] /= NilMap

IdleServesLastCycleWitness ==
    /\ pc = "sleep"
    /\ cycle = 2
    /\ Deref(eventCache) = EmptyMap
    /\ hist[1].data /= EmptyMap
    /\ \E r \in Readers : rpc[r] = "returned" /\ callAt[r] = 2 /\ ret[r] = 2

(* ------------------------------ source independence -------------------- *)

\* s and t hold the same for every source but x.
AgreeExcept(s, t, x) ==
    \A y \in Sources \ {x} :
        /\ y \in DOMAIN s <=> y \in DOMAIN t
        /\ y \in DOMAIN s => s[y] = t[y]

\* C12 (as claimed): had events(x) ended in any other way (another list, or
\* any failure), poll() would still have returned a snapshot, with every
\* other source present or absent as now and with the same list.
SourceIndependence ==
    pc = "update" =>
        \A x \in Sources : \A o \in eventsResults(MaxLen) :
            /\ ~PollResult([got EXCEPT ![x] = o]).exited
            /\ \E s \in PollResult([got EXCEPT ![x] = o]).maps :
                    AgreeExcept(s, heap[events], x)

(* ------------------------------ the Poll cycle -------------------------- *)

AllFetched == \A m \in Sources : fetched[m] = 1

\* C13: a cycle fetches the sources in the order of meetupNames, then sorts,
\* then calls updateCache, then sleeps. No sleep comes before the first
\* cycle; updateCache is called once per cycle, after every fetch of the
\* cycle has returned, with the sorted map of that cycle.
CycleOrder ==
    /\ Len(hist) \in {cycle - 1, cycle} \cap (0..cycle)
    /\ pc = "fetch" =>
          /\ Len(hist) = cycle - 1
          /\ \A j \in 1..Len(meetupNames) :
                fetched[meetupNames[j]] = IF j < idx THEN 1 ELSE 0
    /\ pc \in {"sort", "update", "updating"} => Len(hist) = cycle - 1 /\ AllFetched
    /\ pc \in {"update", "updating"} => events = all /\ AllSorted(heap[events])
    /\ pc = "sleep" => cycle >= 1 /\ Len(hist) = cycle
    /\ (Len(hist) = cycle /\ cycle >= 1) =>
          /\ pc \in {"sleep", "poll"}
          /\ AllFetched
          /\ hist[cycle].ref = all
          /\ AllSorted(hist[cycle].data)

CycleOrderWitness ==
    /\ pc = "sleep"
    /\ cycle = 2
    /\ Len(hist) = 2
    /\ got[meetupNames[2]] = DecodeError
    /\ DOMAIN hist[2].data = {meetupNames[1], meetupNames[3]}

\* C14: while the Poll goroutine makes the map, fetches, sorts or sleeps it
\* does not own the mutex; it owns it only inside updateCache.
LoopLocksOnlyInUpdateCache ==
    /\ pc \in {"poll", "fetch", "sort", "update", "sleep", "exited"} => mu /= "Poll"
    /\ mu = "Poll" => pc = "updating"

LoopLocksOnlyInUpdateCacheWitness ==
    /\ pc = "fetch"
    /\ cycle = 2
    /\ idx = 2
    /\ mu = "r1"
    /\ rpc["r1"] = "locked"
    /\ rpc["r2"] = "returned"
    /\ ret["r2"] = hist[1].ref

\* C17: in a cycle no source is fetched twice, a failed one included, and
\* when the range loop ends every source has been fetched once.
FetchedOnce ==
    /\ \A m \in Sources : fetched[m] <= 1
    /\ \A m \in Sources : fetched[m] = 1 <=> got[m] /= NotFetched
    /\ pc \in {"sort", "update", "updating", "sleep"} => AllFetched

FetchedOnceWitness ==
    /\ pc = "sort"
    /\ cycle = 2
    /\ got[meetupNames[1]] = DecodeError
    /\ got[meetupNames[2]] = DecodeError
    /\ got[meetupNames[3]] = Ok(Decoded(<<300, 100>>))
    /\ AllFetched

\* C19: the sources of the cached snapshot, and of every snapshot installed
\* or being built, are names of meetupNames, which has no name twice.
KeysWithinMeetupNames ==
    /\ \A i, j \in 1..Len(meetupNames) : meetupNames[i] = meetupNames[j] => i = j
    /\ DOMAIN Deref(eventCache) \subseteq Sources
    /\ Cardinality(DOMAIN Deref(eventCache)) <= Len(meetupNames)
    /\ \A r \in MapRefs : DOMAIN heap[r] \subseteq Sources
    /\ \A k \in 1..Len(hist) : DOMAIN hist[k].data \subseteq Sources

KeysWithinMeetupNamesWitness ==
    /\ eventCache /= NilMap
    /\ DOMAIN Deref(eventCache) = Sources
    /\ Cardinality(DOMAIN Deref(eventCache)) = Len(meetupNames)
    /\ cycle = 2
    /\ DOMAIN hist[1].data = {meetupNames[2]}

(* ------------------------------ carry-over ------------------------------ *)

\* v holds the events of w (no two of which have the same ID) in an order
\* of ascending Time.
IsSortOf(v, w) ==
    /\ Len(v) = Len(w)
    /\ {v[i] : i \in 1..Len(v)} = {w[i] : i \in 1..Len(w)}
    /\ IsSorted(v)

Absent(m) == eventCache /= NilMap /\ m \notin DOMAIN Deref(eventCache)

LastFailed(m) == last[m] \in {"decode", "transport"}

\* After a cycle's updateCache a source whose fetch failed in that cycle is
\* not in the cache, whatever the cache held for it before.
AbsentAfterFailure ==
    pc = "sleep" =>
        \A m \in Sources : got[m].kind /= "ok" => m \notin DOMAIN Deref(eventCache)

\* After a cycle's updateCache a source whose fetch succeeded in that cycle
\* is in the cache with the events of that fetch, sorted.
PresentAfterSuccess ==
    pc = "sleep" =>
        \A m \in Sources : got[m].kind = "ok" =>
            /\ m \in DOMAIN Deref(eventCache)
            /\ IsSortOf(Deref(eventCache)[m], got[m].data)

\* C15 (as claimed): whenever a source is absent from the cached snapshot
\* its most recent fetch failed; a source that fails in a cycle is absent
\* after the cycle's updateCache, and one that succeeds is present with the
\* new events.
NoStaleCarryOver ==
    /\ \A m \in Sources : Absent(m) => LastFailed(m)
    /\ AbsentAfterFailure
    /\ PresentAfterSuccess

\* C15 (amended): a source is absent from the cached snapshot only if its
\* most recent fetch failed, or if the running cycle has fetched it and has
\* not yet installed its map; while the loop sleeps absence means exactly
\* that the fetch of the last cycle failed. The rest is as claimed.
NoStaleCarryOverOnceInstalled ==
    /\ \A m \in Sources :
          Absent(m) => \/ LastFailed(m)
                       \/ Len(hist) < cycle /\ fetched[m] = 1 /\ got[m].kind = "ok"
    /\ (pc = "sleep" \/ (pc = "poll" /\ cycle >= 1)) =>
          \A m \in Sources : m \notin DOMAIN Deref(eventCache) <=> LastFailed(m)
    /\ AbsentAfterFailure
    /\ PresentAfterSuccess

NoStaleCarryOverWitness ==
    /\ pc = "sleep"
    /\ cycle = 2
    /\ DOMAIN hist[1].data = {meetupNames[1]}
    /\ hist[1].data[meetupNames[1]] = <<Event(2, 100), Event(1, 300)>>
    /\ got[meetupNames[1]] = DecodeError
    /\ meetupNames[1] \notin DOMAIN Deref(eventCache)
    /\ DOMAIN Deref(eventCache) = {meetupNames[2]}

(* ------------------------------ snapshots stay as installed ------------- *)

\* C16: an installed map is the finished result of poll() for its cycle and
\* keeps the contents it was installed with; every cycle installs a map of
\* its own, which neither the cache nor a caller holds while it is built;
\* so the map a caller got from AllEvents stays as it was.
SnapshotsNeverChange ==
    /\ \A k \in 1..Len(hist) : heap[hist[k].ref] = hist[k].data /\ AllSorted(hist[k].data)
    /\ (Len(hist) = cycle /\ cycle >= 1) =>
          /\ DOMAIN hist[cycle].data = Succeeded
          /\ \A m \in Succeeded : IsSortOf(hist[cycle].data[m], got[m].data)
    /\ \A j, k \in 1..Len(hist) : hist[j].ref = hist[k].ref => j = k
    /\ pc \in {"fetch", "sort", "update", "updating"} =>
          /\ all /= eventCache
          /\ \A k \in 1..Len(hist) : hist[k].ref /= all
          /\ \A r \in Readers : ret[r] /= all
    /\ \A r \in Readers :
          ret[r] /= NilMap =>
              \E k \in 1..Len(hist) : ret[r] = hist[k].ref /\ heap[ret[r]] = hist[k].data

SnapshotsNeverChangeWitness ==
    /\ pc = "sleep"
    /\ Len(hist) = 2
    /\ rpc["r1"] = "returned"
    /\ ret["r1"] = hist[1].ref
    /\ eventCache = hist[2].ref
    /\ DOMAIN hist[1].data = {meetupNames[1], meetupNames[2]}
    /\ DOMAIN hist[2].data = {meetupNames[3]}
    /\ heap[ret["r1"]][meetupNames[1]] = <<Event(2, 100), Event(1, 300)>>

(* ------------------------------ the mutex ------------------------------- *)

MutualExclusion ==
    /\ mu = "Poll" <=> pc = "updating"
    /\ \A r \in Readers : mu = r <=> rpc[r] = "locked"

\* C18 (as claimed): updateCache and AllEvents exclude each other, and every
\* call of either that has started returns.
MutexReleasedAndCallsReturn ==
    /\ []MutualExclusion
    /\ \A r \in Readers : rpc[r] \in {"lock", "locked"} ~> rpc[r] = "returned"
    /\ pc \in {"update", "updating"} ~> pc = "sleep"

(* ------------------------------ UpcomingEvents -------------------------- *)

Min(a, b) == IF a < b THEN a ELSE b

\* C11 (as claimed): UpcomingEvents returns, for every source of the
\* snapshot, its first min(3, n) events in order, and never panics.
UpcomingEventsClamps ==
    threeEvents.state /= "none" =>
        threeEvents = Returned([k \in DOMAIN Deref(eventCache) |->
            SubSeq(Deref(eventCache)[k], 1, Min(MaxShown, Len(Deref(eventCache)[k])))])

====
